---- MODULE Spec2Model ----
(***************************************************************************)
(* A model of the playlist-mover server (src/app.py, src/models.py,        *)
(* src/config.py): the in-memory Tidal session registry, the daily quota   *)
(* gate, the migration handlers and the migration ledger.                  *)
(*                                                                         *)
(* A request handler is one action.  The handler's inputs (the JSON body)  *)
(* and the answers of its collaborators (the Tidal and Spotify services,   *)
(* the database) are parameters of the action; each specification draws    *)
(* them from bounded sets.                                                 *)
(***************************************************************************)
EXTENDS Integers, Sequences, FiniteSets, TLC

VARIABLES
    tidal_sessions,  \* app.py:49   session id -> state of the login future
    playlists,       \* the Tidal account's playlists: id -> [name, tracks]
    api_usage,       \* models.py ApiUsage rows: <<user, action, day>> -> [count, tracks_count]
    migrations,      \* models.py Migration rows, in insertion order
    today,           \* date.today()
    request,         \* the request the last handler served
    env,             \* what the collaborators answered during that request
    calls,           \* the calls that request issued on the Tidal session, in order
    response,        \* the response the last handler returned
    served,          \* number of migration and merge requests served so far
    inflight         \* SpecRace: worker thread -> the migrate_tracks request it is in

vars == <<tidal_sessions, playlists, api_usage, migrations, today,
          request, env, calls, response, served, inflight>>

----------------------------------------------------------------------------
(* Bounds of the model *)

MaxSessions == 1      \* session ids are 1..MaxSessions
MaxUsers == 1         \* users are 1..MaxUsers
MaxTracks == 12       \* length of the long track list
FreeLen == 2          \* searches whose outcome is drawn freely, the rest share one
FavFaults == 2        \* favorites adds that may fail are among the first FavFaults
MaxPlaylists == 3     \* playlist ids are 1..MaxPlaylists
MaxRequests == 1      \* migration and merge requests served in one behaviour of Spec
DailyLimit == 2       \* RATE_LIMIT_MIGRATIONS as configured for the model
MaxInFlight == 2      \* worker threads that serve requests at the same time in SpecRace
MaxDays == 1          \* midnights that pass in one behaviour of SpecUsage

(* Program constants *)

NotFoundCap == 10     \* not_found[:10]

----------------------------------------------------------------------------
(* Values *)

None == 0                       \* a missing or empty id, Python's None
NoText == ""                    \* a missing or empty text, None in a text column
SessionIds == 1..MaxSessions
UserIds == 1..MaxUsers
PlaylistIds == 1..MaxPlaylists
Tracks == 1..MaxTracks

Min(a, b) == IF a < b THEN a ELSE b
Max(a, b) == IF a > b THEN a ELSE b

\* The id the Tidal catalogue gives to its top-ranked match of a source track.
TidalId(track) == 100 + track

\* str(playlist.id)
Str(id) == <<"str", id>>

SearchOutcomes == {"match", "zero", "raise"}

NoRequest == [op |-> "none"]
NoEnv == [ident |-> "none", dbf |-> "none"]
NoResponse == [status |-> 0]

----------------------------------------------------------------------------
(* Responses: jsonify(...) with the status code *)

ErrorResponse(status, message) == [status |-> status, error |-> message]

QuotaResponse(limit) ==
    [status |-> 429, error |-> "Daily migration limit reached", limit |-> limit]

\* A variant of Truncate that reports the whole list.
Truncate_uncapped(not_found) == not_found

\* not_found[:10]
Truncate(not_found) == SubSeq(not_found, 1, Min(Len(not_found), NotFoundCap))

SuccessResponse(pid, pname, total, ids, not_found) ==
    [status |-> 200, success |-> TRUE,
     playlist_id |-> pid, playlist_name |-> pname,
     total_tracks |-> total,
     migrated |-> Len(ids),
     not_found |-> Len(not_found),
     not_found_tracks |-> Truncate(not_found)]

----------------------------------------------------------------------------
(* models.py: the quota gate *)

UsageKey(user, action) == <<user, action, today>>

\* A variant of check_rate_limit that still allows a user whose count has just
\* reached the limit.
check_rate_limit_inclusive(user, action, daily_limit) ==
    IF UsageKey(user, action) \notin DOMAIN api_usage
    THEN <<TRUE, daily_limit>>
    ELSE LET remaining == daily_limit - api_usage[UsageKey(user, action)].count
         IN  <<remaining >= 0, Max(0, remaining)>>

\* A variant of check_rate_limit that does not clamp remaining at zero.
check_rate_limit_unclamped(user, action, daily_limit) ==
    IF UsageKey(user, action) \notin DOMAIN api_usage
    THEN <<TRUE, daily_limit>>
    ELSE LET remaining == daily_limit - api_usage[UsageKey(user, action)].count
         IN  <<remaining > 0, remaining>>

\* check_rate_limit: <<allowed, remaining>>; reads api_usage, writes nothing.
check_rate_limit(user, action, daily_limit) ==
    IF UsageKey(user, action) \notin DOMAIN api_usage
    THEN <<TRUE, daily_limit>>
    ELSE LET remaining == daily_limit - api_usage[UsageKey(user, action)].count
         IN  <<remaining > 0, Max(0, remaining)>>

\* A variant of increment_usage that adds the tracks to an existing row but
\* not the attempt.
increment_usage_tracks_only(usage, user, action, tracks_count) ==
    LET key == UsageKey(user, action)
    IN  IF key \in DOMAIN usage
        THEN [usage EXCEPT ![key] = [count |-> @.count,
                                     tracks_count |-> @.tracks_count + tracks_count]]
        ELSE [k \in DOMAIN usage \cup {key} |->
                 IF k = key THEN [count |-> 1, tracks_count |-> tracks_count]
                 ELSE usage[k]]

\* A variant of increment_usage whose query filters on user and day only: every
\* row of the user for today is raised, and a first row is added if the user
\* has none today.
increment_usage_any_action(usage, user, action, tracks_count) ==
    LET key == UsageKey(user, action)
        mine == {k \in DOMAIN usage : k[1] = user /\ k[3] = today}
    IN  IF mine # {}
        THEN [k \in DOMAIN usage |->
                 IF k \in mine
                 THEN [count |-> usage[k].count + 1,
                       tracks_count |-> usage[k].tracks_count + tracks_count]
                 ELSE usage[k]]
        ELSE [k \in DOMAIN usage \cup {key} |->
                 IF k = key THEN [count |-> 1, tracks_count |-> tracks_count]
                 ELSE usage[k]]

\* increment_usage: the table after the commit.
increment_usage(usage, user, action, tracks_count) ==
    LET key == UsageKey(user, action)
    IN  IF key \in DOMAIN usage
        THEN [usage EXCEPT ![key] = [count |-> @.count + 1,
                                     tracks_count |-> @.tracks_count + tracks_count]]
        ELSE [k \in DOMAIN usage \cup {key} |->
                 IF k = key THEN [count |-> 1, tracks_count |-> tracks_count]
                 ELSE usage[k]]

----------------------------------------------------------------------------
(* app.py: the search phase of a migration (835-845, 996-1006) *)

SearchCall(track, outcome) ==
    [fn |-> "search", arg |-> [query |-> track, limit |-> 1], res |-> outcome]

\* A variant of search_step whose except clause forgets the track.
search_step_drops(acc, track, outcome) ==
    IF outcome = "match"
    THEN [acc EXCEPT !.tidal_track_ids = Append(@, TidalId(track)),
                     !.calls = Append(@, SearchCall(track, outcome))]
    ELSE IF outcome = "zero"
    THEN [acc EXCEPT !.not_found = Append(@, track),
                     !.calls = Append(@, SearchCall(track, outcome))]
    ELSE [acc EXCEPT !.calls = Append(@, SearchCall(track, outcome))]

\* A variant of search_step that stops searching once a search has raised: the
\* tracks after it are classified not found without a call.
search_step_gives_up(acc, track, outcome) ==
    IF \E k \in 1..Len(acc.calls) : acc.calls[k].res = "raise"
    THEN [acc EXCEPT !.not_found = Append(@, track)]
    ELSE IF outcome = "match"
    THEN [acc EXCEPT !.tidal_track_ids = Append(@, TidalId(track)),
                     !.calls = Append(@, SearchCall(track, outcome))]
    ELSE [acc EXCEPT !.not_found = Append(@, track),
                     !.calls = Append(@, SearchCall(track, outcome))]

\* A variant of search_step that puts an unmatched track at the head of the list.
search_step_prepends(acc, track, outcome) ==
    IF outcome = "match"
    THEN [acc EXCEPT !.tidal_track_ids = Append(@, TidalId(track)),
                     !.calls = Append(@, SearchCall(track, outcome))]
    ELSE [acc EXCEPT !.not_found = <<track>> \o @,
                     !.calls = Append(@, SearchCall(track, outcome))]

\* One iteration of the loop: one search, and the track goes to exactly one list.
search_step(acc, track, outcome) ==
    IF outcome = "match"
    THEN [acc EXCEPT !.tidal_track_ids = Append(@, TidalId(track)),
                     !.calls = Append(@, SearchCall(track, outcome))]
    ELSE [acc EXCEPT !.not_found = Append(@, track),
                     !.calls = Append(@, SearchCall(track, outcome))]

RECURSIVE search_loop(_, _, _, _)
search_loop(tracks, outc, i, acc) ==
    IF i > Len(tracks) THEN acc
    ELSE search_loop(tracks, outc, i + 1, search_step(acc, tracks[i], outc[i]))

search_phase(tracks, outc) ==
    search_loop(tracks, outc, 1,
                [tidal_track_ids |-> <<>>, not_found |-> <<>>, calls |-> <<>>])

----------------------------------------------------------------------------
(* app.py: the destination phase of a migration (847-873, 1008-1013) *)

ProviderError == "provider error"      \* str(e) of what the Tidal client raised
DatabaseError == "database error"      \* str(e) of what the database session raised

\* A variant of destination that tests target_playlist_id first.
destination_playlist_first(add_to_favorites, target_playlist_id) ==
    IF target_playlist_id # None THEN "existing_playlist"
    ELSE IF add_to_favorites THEN "favorites"
    ELSE "new_playlist"

\* The if / elif / else chain on add_to_favorites and target_playlist_id.
destination(add_to_favorites, target_playlist_id) ==
    IF add_to_favorites THEN "favorites"
    ELSE IF target_playlist_id # None THEN "existing_playlist"
    ELSE "new_playlist"

\* One iteration of the favorites loop: the add is tried, a failure is printed.
favorites_step(acc, track_id, fails) ==
    [acc EXCEPT !.calls = Append(@, [fn |-> "add_track", arg |-> track_id,
                                     res |-> IF fails THEN "raise" ELSE "ok"])]

\* A variant of favorites_loop that stops at the first add that fails.
RECURSIVE favorites_loop_abort(_, _, _, _)
favorites_loop_abort(ids, favf, j, acc) ==
    IF j > Len(ids) \/ (j - 1) \in favf THEN acc
    ELSE favorites_loop_abort(ids, favf, j + 1, favorites_step(acc, ids[j], j \in favf))

RECURSIVE favorites_loop(_, _, _, _)
favorites_loop(ids, favf, j, acc) ==
    IF j > Len(ids) THEN acc
    ELSE favorites_loop(ids, favf, j + 1, favorites_step(acc, ids[j], j \in favf))

\* A variant of bulk_add that catches a failing add and goes on.
bulk_add_swallows(acc, pid, ids, fails) ==
    IF ids = <<>> THEN acc
    ELSE IF fails
    THEN [acc EXCEPT !.calls = Append(@, [fn |-> "add", arg |-> ids, res |-> "raise"])]
    ELSE [acc EXCEPT !.calls = Append(@, [fn |-> "add", arg |-> ids, res |-> "ok"]),
                     !.playlists = [@ EXCEPT ![pid].tracks = @ \o ids]]

\* A variant of bulk_add without the "if tidal_track_ids" guard.
bulk_add_unguarded(acc, pid, ids, fails) ==
    IF fails
    THEN [acc EXCEPT !.calls = Append(@, [fn |-> "add", arg |-> ids, res |-> "raise"]),
                     !.raised = TRUE]
    ELSE [acc EXCEPT !.calls = Append(@, [fn |-> "add", arg |-> ids, res |-> "ok"]),
                     !.playlists = [@ EXCEPT ![pid].tracks = @ \o ids]]

\* playlist.add(tidal_track_ids), skipped when no track was matched.
bulk_add(acc, pid, ids, fails) ==
    IF ids = <<>> THEN acc
    ELSE IF fails
    THEN [acc EXCEPT !.calls = Append(@, [fn |-> "add", arg |-> ids, res |-> "raise"]),
                     !.raised = TRUE]
    ELSE [acc EXCEPT !.calls = Append(@, [fn |-> "add", arg |-> ids, res |-> "ok"]),
                     !.playlists = [@ EXCEPT ![pid].tracks = @ \o ids]]

FreePlaylistIds(lib) == PlaylistIds \ DOMAIN lib

\* tidal_session.user.create_playlist(name, description), then the bulk add.
new_playlist(acc, name, ids, destf) ==
    IF destf = "open" \/ FreePlaylistIds(acc.playlists) = {}
    THEN [acc EXCEPT !.calls = Append(@, [fn |-> "create_playlist", arg |-> name,
                                          res |-> "raise"]),
                     !.raised = TRUE]
    ELSE LET pid == CHOOSE p \in FreePlaylistIds(acc.playlists) :
                        \A q \in FreePlaylistIds(acc.playlists) : p <= q
             lib == [p \in DOMAIN acc.playlists \cup {pid} |->
                        IF p = pid THEN [name |-> name, tracks |-> <<>>]
                        ELSE acc.playlists[p]]
             created == [acc EXCEPT
                            !.calls = Append(@, [fn |-> "create_playlist", arg |-> name,
                                                 res |-> "ok"]),
                            !.playlists = lib,
                            !.playlist_id = pid,
                            !.playlist_name = name]
         IN  bulk_add(created, pid, ids, destf = "add")

\* tidal_session.playlist(target_playlist_id), then the bulk add.
existing_playlist(acc, pid, ids, destf) ==
    IF destf = "open" \/ pid \notin DOMAIN acc.playlists
    THEN [acc EXCEPT !.calls = Append(@, [fn |-> "playlist", arg |-> pid, res |-> "raise"]),
                     !.raised = TRUE]
    ELSE LET fetched == [acc EXCEPT
                            !.calls = Append(@, [fn |-> "playlist", arg |-> pid,
                                                 res |-> "ok"]),
                            !.playlist_id = pid,
                            !.playlist_name = acc.playlists[pid].name]
         IN  bulk_add(fetched, pid, ids, destf = "add")

DestinationStart(lib, type) ==
    [calls |-> <<>>, playlists |-> lib, raised |-> FALSE,
     playlist_id |-> None, playlist_name |-> "", migration_type |-> type]

destination_phase(lib, ids, playlist_name, target_playlist_id, add_to_favorites, e) ==
    LET type == destination(add_to_favorites, target_playlist_id)
        start == DestinationStart(lib, type)
    IN  CASE type = "favorites" ->
                [favorites_loop(ids, e.favf, 1, start) EXCEPT !.playlist_name = "Favorites"]
          [] type = "existing_playlist" ->
                existing_playlist(start, target_playlist_id, ids, e.destf)
          [] type = "new_playlist" ->
                new_playlist(start, playlist_name, ids, e.destf)

----------------------------------------------------------------------------
(* app.py: the ledger rows a migration writes (878-891, 921-928, 1018-1033) *)

completed_record(user, source_pid, target_pid, pname, type, total, ids, not_found) ==
    [user_id |-> user,
     source_playlist_id |-> source_pid,
     target_playlist_id |-> target_pid,
     target_playlist_name |-> pname,
     migration_type |-> type,
     total_tracks |-> total,
     migrated_tracks |-> Len(ids),
     skipped_tracks |-> Len(not_found),
     not_found_tracks |-> Truncate(not_found),
     status |-> "completed",
     error_message |-> NoText,
     day |-> today]

failed_record(user, total, message) ==
    [user_id |-> user,
     source_playlist_id |-> None,
     target_playlist_id |-> None,
     target_playlist_name |-> NoText,
     migration_type |-> NoText,
     total_tracks |-> total,
     migrated_tracks |-> 0,
     skipped_tracks |-> 0,
     not_found_tracks |-> <<>>,
     status |-> "failed",
     error_message |-> message,
     day |-> today]

\* A variant of log_migration without the except clause: what the database
\* raises reaches the handler.
log_migration_propagates(user, record, total, dbf) ==
    IF user = None
    THEN [migrations |-> migrations, api_usage |-> api_usage, raised |-> FALSE]
    ELSE IF dbf = "ledger"
    THEN [migrations |-> migrations, api_usage |-> api_usage, raised |-> TRUE]
    ELSE IF dbf = "usage"
    THEN [migrations |-> Append(migrations, record), api_usage |-> api_usage,
          raised |-> TRUE]
    ELSE [migrations |-> Append(migrations, record),
          api_usage |-> increment_usage(api_usage, user, "migration", total),
          raised |-> dbf = "activity"]

\* A variant of log_migration that calls increment_usage before the insert of
\* the ledger row: a failing insert leaves the counter raised.
log_migration_counts_first(user, record, total, dbf) ==
    IF user = None
    THEN [migrations |-> migrations, api_usage |-> api_usage, raised |-> FALSE]
    ELSE IF dbf = "usage"
    THEN [migrations |-> migrations, api_usage |-> api_usage, raised |-> FALSE]
    ELSE IF dbf = "ledger"
    THEN [migrations |-> migrations,
          api_usage |-> increment_usage(api_usage, user, "migration", total),
          raised |-> FALSE]
    ELSE [migrations |-> Append(migrations, record),
          api_usage |-> increment_usage(api_usage, user, "migration", total),
          raised |-> FALSE]

\* The "Log migration to database" block: the insert, increment_usage and
\* log_activity each commit; the first that raises ends the block, and the
\* except clause prints it and rolls back, so nothing is raised to the handler.
log_migration(user, record, total, dbf) ==
    IF user = None \/ dbf = "ledger"
    THEN [migrations |-> migrations, api_usage |-> api_usage, raised |-> FALSE]
    ELSE IF dbf = "usage"
    THEN [migrations |-> Append(migrations, record), api_usage |-> api_usage,
          raised |-> FALSE]
    ELSE [migrations |-> Append(migrations, record),
          api_usage |-> increment_usage(api_usage, user, "migration", total),
          raised |-> FALSE]

\* The "Log failed migration" block of migrate_tracks.
log_failed_migration(user, record, dbf) ==
    IF user = None \/ dbf = "ledger" THEN migrations
    ELSE Append(migrations, record)

----------------------------------------------------------------------------
(* app.py: the quota gate at the head of both migration handlers (810-826) *)

\* get_user_from_code: the user of the code, or None when anything in it raised.
get_user_from_code(spotify_code, ident) ==
    IF ident = "nouser" THEN None ELSE spotify_code

\* A variant of quota_rejects that drops the answer of the check.
quota_rejects_never(user, ident) == FALSE

\* TRUE when the handler answers 429: a user was found, the check ran and
\* did not allow.  A check that raises is printed and the request goes on.
quota_rejects(user, ident) ==
    /\ user # None
    /\ ident = "user"
    /\ ~check_rate_limit(user, "migration", DailyLimit)[1]

\* tidal_sessions[tidal_session_id]["session"] is logged in once its login
\* future ended well; on any other session every call of the Tidal client
\* raises.
logged_in(session_id) == tidal_sessions[session_id] = "ok"

on_session(session_id, e, n) ==
    IF logged_in(session_id) THEN e
    ELSE [e EXCEPT !.outc = [i \in 1..n |-> "raise"], !.favf = 1..n, !.destf = "open"]

\* What of the collaborators' answers the handler has consumed.
Consulted(ident, dbf) == [ident |-> ident, dbf |-> dbf]

\* The same for migrate_playlist once sp.playlist_tracks answered: source is
\* the spotify_tracks list it built.
Fetched(ident, dbf, source) == [ident |-> ident, dbf |-> dbf, source |-> source]

Answer(req, e, cs, resp) ==
    /\ request' = req
    /\ env' = e
    /\ calls' = cs
    /\ response' = resp

----------------------------------------------------------------------------
(* app.py:790-934  POST /migrate_tracks *)

migrate_tracks(spotify_code, tidal_session_id, tracks, playlist_name, target_playlist_id, add_to_favorites, e) ==
    LET req == [op |-> "migrate_tracks",
                spotify_code |-> spotify_code,
                tidal_session_id |-> tidal_session_id,
                tracks |-> tracks,
                playlist_name |-> playlist_name,
                target_playlist_id |-> target_playlist_id,
                add_to_favorites |-> add_to_favorites]
        user == get_user_from_code(spotify_code, e.ident)
        a == on_session(tidal_session_id, e, Len(tracks))
        s == search_phase(tracks, a.outc)
        d == destination_phase(playlists, s.tidal_track_ids, playlist_name,
                               target_playlist_id, add_to_favorites, a)
        dbf == IF user = None THEN "none" ELSE e.dbf
        logged == log_migration(
                      user,
                      completed_record(user, None, d.playlist_id, d.playlist_name,
                                       d.migration_type, Len(tracks),
                                       s.tidal_track_ids, s.not_found),
                      Len(tracks), dbf)
    IN  IF spotify_code = None
        THEN /\ Answer(req, NoEnv, <<>>, ErrorResponse(400, "Spotify authorization required"))
             /\ UNCHANGED <<tidal_sessions, playlists, api_usage, migrations, today>>
        ELSE IF tidal_session_id = None \/ tidal_session_id \notin DOMAIN tidal_sessions
        THEN /\ Answer(req, NoEnv, <<>>, ErrorResponse(400, "Tidal authorization required"))
             /\ UNCHANGED <<tidal_sessions, playlists, api_usage, migrations, today>>
        ELSE IF tracks = <<>>
        THEN /\ Answer(req, NoEnv, <<>>, ErrorResponse(400, "No tracks provided"))
             /\ UNCHANGED <<tidal_sessions, playlists, api_usage, migrations, today>>
        ELSE IF quota_rejects(user, e.ident)
        THEN /\ Answer(req, Consulted(e.ident, "none"), <<>>, QuotaResponse(DailyLimit))
             /\ UNCHANGED <<tidal_sessions, playlists, api_usage, migrations, today>>
        ELSE IF d.raised
        THEN /\ Answer(req, Consulted(e.ident, IF dbf = "ledger" THEN dbf ELSE "none"),
                       s.calls \o d.calls, ErrorResponse(500, ProviderError))
             /\ playlists' = d.playlists
             /\ migrations' = log_failed_migration(
                                  user, failed_record(user, Len(tracks), ProviderError), dbf)
             /\ UNCHANGED <<tidal_sessions, api_usage, today>>
        ELSE IF logged.raised
        THEN /\ Answer(req, Consulted(e.ident, dbf), s.calls \o d.calls,
                       ErrorResponse(500, DatabaseError))
             /\ playlists' = d.playlists
             /\ migrations' = logged.migrations
             /\ api_usage' = logged.api_usage
             /\ UNCHANGED <<tidal_sessions, today>>
        ELSE /\ Answer(req, Consulted(e.ident, dbf), s.calls \o d.calls,
                       SuccessResponse(d.playlist_id, d.playlist_name, Len(tracks),
                                       s.tidal_track_ids, s.not_found))
             /\ playlists' = d.playlists
             /\ migrations' = logged.migrations
             /\ api_usage' = logged.api_usage
             /\ UNCHANGED <<tidal_sessions, today>>

----------------------------------------------------------------------------
(* app.py:937-1060  POST /migrate_playlist *)

SourceError == "source error"          \* str(e) of what the Spotify client raised

\* e.source is the track list the Spotify playlist holds; e.sourcef says that
\* get_spotify_client or sp.playlist_tracks raised.
migrate_playlist(spotify_code, tidal_session_id, playlist_id, playlist_name, e) ==
    LET req == [op |-> "migrate_playlist",
                spotify_code |-> spotify_code,
                tidal_session_id |-> tidal_session_id,
                playlist_id |-> playlist_id,
                playlist_name |-> playlist_name]
        user == get_user_from_code(spotify_code, e.ident)
        spotify_tracks == e.source
        a == on_session(tidal_session_id, e, Len(spotify_tracks))
        s == search_phase(spotify_tracks, a.outc)
        d == new_playlist(DestinationStart(playlists, "playlist"),
                          IF playlist_name # NoText THEN playlist_name ELSE "Migrated Playlist",
                          s.tidal_track_ids, a.destf)
        dbf == IF user = None THEN "none" ELSE e.dbf
        logged == log_migration(
                      user,
                      completed_record(user, playlist_id, Str(d.playlist_id),
                                       d.playlist_name, "playlist", Len(spotify_tracks),
                                       s.tidal_track_ids, s.not_found),
                      Len(spotify_tracks), dbf)
    IN  IF spotify_code = None
        THEN /\ Answer(req, NoEnv, <<>>, ErrorResponse(400, "Spotify authorization required"))
             /\ UNCHANGED <<tidal_sessions, playlists, api_usage, migrations, today>>
        ELSE IF tidal_session_id = None \/ tidal_session_id \notin DOMAIN tidal_sessions
        THEN /\ Answer(req, NoEnv, <<>>, ErrorResponse(400, "Tidal authorization required"))
             /\ UNCHANGED <<tidal_sessions, playlists, api_usage, migrations, today>>
        ELSE IF playlist_id = None
        THEN /\ Answer(req, NoEnv, <<>>, ErrorResponse(400, "Playlist ID required"))
             /\ UNCHANGED <<tidal_sessions, playlists, api_usage, migrations, today>>
        ELSE IF quota_rejects(user, e.ident)
        THEN /\ Answer(req, Consulted(e.ident, "none"), <<>>, QuotaResponse(DailyLimit))
             /\ UNCHANGED <<tidal_sessions, playlists, api_usage, migrations, today>>
        ELSE IF e.sourcef
        THEN /\ Answer(req, Consulted(e.ident, "none"), <<>>, ErrorResponse(500, SourceError))
             /\ UNCHANGED <<tidal_sessions, playlists, api_usage, migrations, today>>
        ELSE IF d.raised
        THEN /\ Answer(req, Fetched(e.ident, "none", spotify_tracks), s.calls \o d.calls,
                       ErrorResponse(500, ProviderError))
             /\ playlists' = d.playlists
             /\ UNCHANGED <<tidal_sessions, api_usage, migrations, today>>
        ELSE IF logged.raised
        THEN /\ Answer(req, Fetched(e.ident, dbf, spotify_tracks), s.calls \o d.calls,
                       ErrorResponse(500, DatabaseError))
             /\ playlists' = d.playlists
             /\ migrations' = logged.migrations
             /\ api_usage' = logged.api_usage
             /\ UNCHANGED <<tidal_sessions, today>>
        ELSE /\ Answer(req, Fetched(e.ident, dbf, spotify_tracks), s.calls \o d.calls,
                       SuccessResponse(d.playlist_id, d.playlist_name, Len(spotify_tracks),
                                       s.tidal_track_ids, s.not_found))
             /\ playlists' = d.playlists
             /\ migrations' = logged.migrations
             /\ api_usage' = logged.api_usage
             /\ UNCHANGED <<tidal_sessions, today>>

----------------------------------------------------------------------------
(* app.py:490-566  the device-authorization session registry *)

\* POST /tidal/login: a fresh uuid4 keys the new session and its pending future.
tidal_login(session_id, raises) ==
    /\ session_id \in SessionIds \ DOMAIN tidal_sessions
    /\ IF raises
       THEN /\ response' = ErrorResponse(500, ProviderError)
            /\ UNCHANGED tidal_sessions
       ELSE /\ response' = [status |-> 200, session_id |-> session_id]
            /\ tidal_sessions' = [k \in DOMAIN tidal_sessions \cup {session_id} |->
                                     IF k = session_id THEN "pending" ELSE tidal_sessions[k]]
    /\ request' = [op |-> "tidal_login"]
    /\ env' = NoEnv
    /\ calls' = <<>>
    /\ UNCHANGED <<playlists, api_usage, migrations, today, served>>

\* The background future of login_oauth ends: the user authorized, or the
\* device code expired.
AuthorizationEnds(session_id, outcome) ==
    /\ session_id \in DOMAIN tidal_sessions
    /\ tidal_sessions[session_id] = "pending"
    /\ tidal_sessions' = [tidal_sessions EXCEPT ![session_id] = outcome]
    /\ UNCHANGED <<playlists, api_usage, migrations, today, request, env, calls,
                   response, served>>

AuthError == "authorization failed"    \* str(e) of what future.result() raised
TidalUser == "tidal user"              \* the summary of tidal_session.user

\* A variant of check_auth_response that only rejects an empty id: looking an
\* unknown id up raises KeyError, which the handler answers with 500.
check_auth_response_lookup(session_id) ==
    IF session_id = None
    THEN [status |-> 200, authenticated |-> FALSE, error |-> "Invalid session"]
    ELSE IF session_id \notin DOMAIN tidal_sessions
    THEN [status |-> 500, authenticated |-> FALSE, error |-> "KeyError"]
    ELSE IF tidal_sessions[session_id] = "pending"
    THEN [status |-> 200, authenticated |-> FALSE]
    ELSE IF tidal_sessions[session_id] = "ok"
    THEN [status |-> 200, authenticated |-> TRUE, user |-> TidalUser]
    ELSE [status |-> 200, authenticated |-> FALSE, error |-> AuthError]

\* A variant of check_auth_response that reports a failed authorization like a
\* pending one.
check_auth_response_boolean(session_id) ==
    IF session_id = None \/ session_id \notin DOMAIN tidal_sessions
    THEN [status |-> 200, authenticated |-> FALSE, error |-> "Invalid session"]
    ELSE IF tidal_sessions[session_id] = "ok"
    THEN [status |-> 200, authenticated |-> TRUE, user |-> TidalUser]
    ELSE [status |-> 200, authenticated |-> FALSE]

\* The body tidal_check_auth answers for a session id, all with status 200.
check_auth_response(session_id) ==
    IF session_id = None \/ session_id \notin DOMAIN tidal_sessions
    THEN [status |-> 200, authenticated |-> FALSE, error |-> "Invalid session"]
    ELSE IF tidal_sessions[session_id] = "pending"
    THEN [status |-> 200, authenticated |-> FALSE]
    ELSE IF tidal_sessions[session_id] = "ok"
    THEN [status |-> 200, authenticated |-> TRUE, user |-> TidalUser]
    ELSE [status |-> 200, authenticated |-> FALSE, error |-> AuthError]

\* A variant of tidal_check_auth that drops a session from the registry once it
\* has reported the end of its authorization.
tidal_check_auth_evicts(session_id) ==
    /\ request' = [op |-> "tidal_check_auth", session_id |-> session_id]
    /\ response' = check_auth_response(session_id)
    /\ env' = NoEnv
    /\ calls' = <<>>
    /\ tidal_sessions' =
          IF session_id \in DOMAIN tidal_sessions /\ tidal_sessions[session_id] # "pending"
          THEN [k \in DOMAIN tidal_sessions \ {session_id} |-> tidal_sessions[k]]
          ELSE tidal_sessions
    /\ UNCHANGED <<playlists, api_usage, migrations, today, served>>

\* POST /tidal/check_auth
tidal_check_auth(session_id) ==
    /\ request' = [op |-> "tidal_check_auth", session_id |-> session_id]
    /\ response' = check_auth_response(session_id)
    /\ env' = NoEnv
    /\ calls' = <<>>
    /\ UNCHANGED <<tidal_sessions, playlists, api_usage, migrations, today, served>>

----------------------------------------------------------------------------
(* app.py:679-726  POST /tidal/merge_playlists *)

\* One iteration of the add loop: target_playlist.add([track.id]); a failure
\* is printed and the loop goes on.
merge_step(acc, target, track_id, fails) ==
    IF fails
    THEN [acc EXCEPT !.calls = Append(@, [fn |-> "add", arg |-> <<track_id>>,
                                          res |-> "raise"])]
    ELSE [acc EXCEPT !.calls = Append(@, [fn |-> "add", arg |-> <<track_id>>,
                                          res |-> "ok"]),
                     !.playlists = [@ EXCEPT ![target].tracks = Append(@, track_id)],
                     !.added_count = @ + 1]

RECURSIVE merge_loop(_, _, _, _, _)
merge_loop(acc, target, tracks_to_add, addf, j) ==
    IF j > Len(tracks_to_add) THEN acc
    ELSE merge_loop(merge_step(acc, target, tracks_to_add[j], j \in addf),
                    target, tracks_to_add, addf, j + 1)

\* [t for t in source_tracks if str(t.id) not in existing_track_ids]
tracks_to_add(source_tracks, target_tracks) ==
    LET existing_track_ids == {target_tracks[i] : i \in 1..Len(target_tracks)}
    IN  SelectSeq(source_tracks, LAMBDA t : t \notin existing_track_ids)

\* The four reads that open the merge, in order; the first that raises ends it.
MergeReads == <<"source", "target", "source_tracks", "target_tracks">>

\* A variant of merge_reads that goes on with what it has when reading the
\* target's tracks raises.
merge_reads_lenient(source, target, fetchf) ==
    LET fails(k) == \/ fetchf = MergeReads[k]
                    \/ k = 1 /\ source \notin DOMAIN playlists
                    \/ k = 2 /\ target \notin DOMAIN playlists
        call(k) == [fn |-> IF k <= 2 THEN "playlist" ELSE "tracks",
                    arg |-> IF k \in {1, 3} THEN source ELSE target,
                    res |-> IF fails(k) THEN "raise" ELSE "ok"]
        last == IF \E k \in 1..3 : fails(k)
                THEN CHOOSE k \in 1..3 : fails(k) /\ \A m \in 1..(k - 1) : ~fails(m)
                ELSE 4
    IN  [calls |-> [k \in 1..last |-> call(k)],
         raised |-> \E k \in 1..3 : fails(k)]

merge_reads(source, target, fetchf) ==
    LET fails(k) == \/ fetchf = MergeReads[k]
                    \/ k = 1 /\ source \notin DOMAIN playlists
                    \/ k = 2 /\ target \notin DOMAIN playlists
        call(k) == [fn |-> IF k <= 2 THEN "playlist" ELSE "tracks",
                    arg |-> IF k \in {1, 3} THEN source ELSE target,
                    res |-> IF fails(k) THEN "raise" ELSE "ok"]
        last == IF \E k \in 1..4 : fails(k)
                THEN CHOOSE k \in 1..4 : fails(k) /\ \A m \in 1..(k - 1) : ~fails(m)
                ELSE 4
    IN  [calls |-> [k \in 1..last |-> call(k)],
         raised |-> \E k \in 1..4 : fails(k)]

tidal_merge_playlists(session_id, source_playlist_id, target_playlist_id, e) ==
    LET req == [op |-> "tidal_merge_playlists",
                session_id |-> session_id,
                source_playlist_id |-> source_playlist_id,
                target_playlist_id |-> target_playlist_id]
        r == merge_reads(source_playlist_id, target_playlist_id,
                         IF logged_in(session_id) THEN e.fetchf ELSE "source")
        source_tracks == playlists[source_playlist_id].tracks
        target_tracks == playlists[target_playlist_id].tracks
        m == merge_loop([calls |-> r.calls, playlists |-> playlists, added_count |-> 0],
                        target_playlist_id,
                        tracks_to_add(source_tracks, target_tracks), e.addf, 1)
    IN  IF session_id = None \/ session_id \notin DOMAIN tidal_sessions
        THEN /\ Answer(req, NoEnv, <<>>, ErrorResponse(400, "Invalid session"))
             /\ UNCHANGED <<tidal_sessions, playlists, api_usage, migrations, today>>
        ELSE IF source_playlist_id = None \/ target_playlist_id = None
        THEN /\ Answer(req, NoEnv, <<>>,
                       ErrorResponse(400, "Both source and target playlist IDs required"))
             /\ UNCHANGED <<tidal_sessions, playlists, api_usage, migrations, today>>
        ELSE IF source_playlist_id = target_playlist_id
        THEN /\ Answer(req, NoEnv, <<>>,
                       ErrorResponse(400, "Cannot merge a playlist with itself"))
             /\ UNCHANGED <<tidal_sessions, playlists, api_usage, migrations, today>>
        ELSE IF r.raised
        THEN /\ Answer(req, NoEnv, r.calls, ErrorResponse(500, ProviderError))
             /\ UNCHANGED <<tidal_sessions, playlists, api_usage, migrations, today>>
        ELSE IF e.deletef
        THEN /\ Answer(req, NoEnv,
                       Append(m.calls, [fn |-> "delete", arg |-> source_playlist_id,
                                        res |-> "raise"]),
                       ErrorResponse(500, ProviderError))
             /\ playlists' = m.playlists
             /\ UNCHANGED <<tidal_sessions, api_usage, migrations, today>>
        ELSE /\ Answer(req, NoEnv,
                       Append(m.calls, [fn |-> "delete", arg |-> source_playlist_id,
                                        res |-> "ok"]),
                       [status |-> 200, success |-> TRUE,
                        tracks_added |-> m.added_count,
                        tracks_skipped |-> Len(source_tracks) - m.added_count,
                        source_deleted |-> TRUE])
             /\ playlists' = [p \in DOMAIN m.playlists \ {source_playlist_id} |->
                                 m.playlists[p]]
             /\ UNCHANGED <<tidal_sessions, api_usage, migrations, today>>

----------------------------------------------------------------------------
(* app.py:569-676, 729-787  the other handlers that borrow a Tidal session *)

\* What the Tidal client does on the session: e.fault names the call that
\* raises; on a session that is not logged in the first call raises.
fault_on(session_id, e, first) ==
    IF logged_in(session_id) THEN e.fault ELSE first

\* tidal_session.playlist(playlist_id)
playlist_call(playlist_id, fault) ==
    [fn |-> "playlist", arg |-> playlist_id,
     res |-> IF fault = "open" \/ playlist_id \notin DOMAIN playlists THEN "raise" ELSE "ok"]

\* POST /tidal/playlists
tidal_playlists(session_id, e) ==
    LET req == [op |-> "tidal_playlists", session_id |-> session_id]
        fault == fault_on(session_id, e, "open")
    IN  IF session_id = None \/ session_id \notin DOMAIN tidal_sessions
        THEN /\ Answer(req, NoEnv, <<>>, ErrorResponse(400, "Invalid session"))
             /\ UNCHANGED <<tidal_sessions, playlists, api_usage, migrations, today>>
        ELSE IF fault = "open"
        THEN /\ Answer(req, NoEnv, <<[fn |-> "playlists", arg |-> None, res |-> "raise"]>>,
                       ErrorResponse(500, ProviderError))
             /\ UNCHANGED <<tidal_sessions, playlists, api_usage, migrations, today>>
        ELSE /\ Answer(req, NoEnv, <<[fn |-> "playlists", arg |-> None, res |-> "ok"]>>,
                       [status |-> 200,
                        body |-> {[id |-> Str(p), name |-> playlists[p].name] :
                                     p \in DOMAIN playlists}])
             /\ UNCHANGED <<tidal_sessions, playlists, api_usage, migrations, today>>

\* POST /tidal/playlist_tracks
tidal_playlist_tracks(session_id, playlist_id, e) ==
    LET req == [op |-> "tidal_playlist_tracks", session_id |-> session_id,
                playlist_id |-> playlist_id]
        fault == fault_on(session_id, e, "open")
        open == playlist_call(playlist_id, fault)
    IN  IF session_id = None \/ session_id \notin DOMAIN tidal_sessions
        THEN /\ Answer(req, NoEnv, <<>>, ErrorResponse(400, "Invalid session"))
             /\ UNCHANGED <<tidal_sessions, playlists, api_usage, migrations, today>>
        ELSE IF playlist_id = None
        THEN /\ Answer(req, NoEnv, <<>>, ErrorResponse(400, "Playlist ID required"))
             /\ UNCHANGED <<tidal_sessions, playlists, api_usage, migrations, today>>
        ELSE IF open.res = "raise"
        THEN /\ Answer(req, NoEnv, <<open>>, ErrorResponse(500, ProviderError))
             /\ UNCHANGED <<tidal_sessions, playlists, api_usage, migrations, today>>
        ELSE IF fault = "tracks"
        THEN /\ Answer(req, NoEnv,
                       <<open, [fn |-> "tracks", arg |-> playlist_id, res |-> "raise"]>>,
                       ErrorResponse(500, ProviderError))
             /\ UNCHANGED <<tidal_sessions, playlists, api_usage, migrations, today>>
        ELSE /\ Answer(req, NoEnv,
                       <<open, [fn |-> "tracks", arg |-> playlist_id, res |-> "ok"]>>,
                       [status |-> 200,
                        body |-> [i \in 1..Len(playlists[playlist_id].tracks) |->
                                     Str(playlists[playlist_id].tracks[i])]])
             /\ UNCHANGED <<tidal_sessions, playlists, api_usage, migrations, today>>

\* A variant of tidal_delete_playlist that only rejects an empty session id:
\* looking an unknown id up raises KeyError inside the try, answered with 500.
tidal_delete_playlist_lookup(session_id, playlist_id, e) ==
    LET req == [op |-> "tidal_delete_playlist", session_id |-> session_id,
                playlist_id |-> playlist_id]
    IN  IF session_id = None
        THEN /\ Answer(req, NoEnv, <<>>, ErrorResponse(400, "Invalid session"))
             /\ UNCHANGED <<tidal_sessions, playlists, api_usage, migrations, today>>
        ELSE IF playlist_id = None
        THEN /\ Answer(req, NoEnv, <<>>, ErrorResponse(400, "Playlist ID required"))
             /\ UNCHANGED <<tidal_sessions, playlists, api_usage, migrations, today>>
        ELSE /\ Answer(req, NoEnv, <<>>, ErrorResponse(500, "KeyError"))
             /\ UNCHANGED <<tidal_sessions, playlists, api_usage, migrations, today>>

\* POST /tidal/delete_playlist
tidal_delete_playlist(session_id, playlist_id, e) ==
    LET req == [op |-> "tidal_delete_playlist", session_id |-> session_id,
                playlist_id |-> playlist_id]
        fault == fault_on(session_id, e, "open")
        open == playlist_call(playlist_id, fault)
    IN  IF session_id = None \/ session_id \notin DOMAIN tidal_sessions
        THEN /\ Answer(req, NoEnv, <<>>, ErrorResponse(400, "Invalid session"))
             /\ UNCHANGED <<tidal_sessions, playlists, api_usage, migrations, today>>
        ELSE IF playlist_id = None
        THEN /\ Answer(req, NoEnv, <<>>, ErrorResponse(400, "Playlist ID required"))
             /\ UNCHANGED <<tidal_sessions, playlists, api_usage, migrations, today>>
        ELSE IF open.res = "raise"
        THEN /\ Answer(req, NoEnv, <<open>>, ErrorResponse(500, ProviderError))
             /\ UNCHANGED <<tidal_sessions, playlists, api_usage, migrations, today>>
        ELSE IF fault = "delete"
        THEN /\ Answer(req, NoEnv,
                       <<open, [fn |-> "delete", arg |-> playlist_id, res |-> "raise"]>>,
                       ErrorResponse(500, ProviderError))
             /\ UNCHANGED <<tidal_sessions, playlists, api_usage, migrations, today>>
        ELSE /\ Answer(req, NoEnv,
                       <<open, [fn |-> "delete", arg |-> playlist_id, res |-> "ok"]>>,
                       [status |-> 200, success |-> TRUE,
                        message |-> "Playlist deleted successfully"])
             /\ playlists' = [p \in DOMAIN playlists \ {playlist_id} |-> playlists[p]]
             /\ UNCHANGED <<tidal_sessions, api_usage, migrations, today>>

\* POST /tidal/search: one search with a limit of five results.
tidal_search(session_id, query, e) ==
    LET req == [op |-> "tidal_search", session_id |-> session_id, query |-> query]
        outcome == IF logged_in(session_id) THEN e.outcome ELSE "raise"
        call == [fn |-> "search", arg |-> [query |-> query, limit |-> 5], res |-> outcome]
    IN  IF session_id = None \/ session_id \notin DOMAIN tidal_sessions
        THEN /\ Answer(req, NoEnv, <<>>, ErrorResponse(400, "Invalid session"))
             /\ UNCHANGED <<tidal_sessions, playlists, api_usage, migrations, today>>
        ELSE IF query = None
        THEN /\ Answer(req, NoEnv, <<>>, ErrorResponse(400, "Query required"))
             /\ UNCHANGED <<tidal_sessions, playlists, api_usage, migrations, today>>
        ELSE IF outcome = "raise"
        THEN /\ Answer(req, NoEnv, <<call>>, ErrorResponse(500, ProviderError))
             /\ UNCHANGED <<tidal_sessions, playlists, api_usage, migrations, today>>
        ELSE /\ Answer(req, NoEnv, <<call>>,
                       [status |-> 200,
                        body |-> IF outcome = "match" THEN <<TidalId(query)>> ELSE <<>>])
             /\ UNCHANGED <<tidal_sessions, playlists, api_usage, migrations, today>>

\* POST /tidal/create_playlist
tidal_create_playlist(session_id, name, track_ids, e) ==
    LET req == [op |-> "tidal_create_playlist", session_id |-> session_id,
                name |-> name, track_ids |-> track_ids]
        fault == fault_on(session_id, e, "open")
        d == new_playlist(DestinationStart(playlists, "new_playlist"), name, track_ids,
                          IF fault \in {"open", "add"} THEN fault ELSE "none")
    IN  IF session_id = None \/ session_id \notin DOMAIN tidal_sessions
        THEN /\ Answer(req, NoEnv, <<>>, ErrorResponse(400, "Invalid session"))
             /\ UNCHANGED <<tidal_sessions, playlists, api_usage, migrations, today>>
        ELSE IF name = NoText
        THEN /\ Answer(req, NoEnv, <<>>, ErrorResponse(400, "Playlist name required"))
             /\ UNCHANGED <<tidal_sessions, playlists, api_usage, migrations, today>>
        ELSE IF d.raised
        THEN /\ Answer(req, NoEnv, d.calls, ErrorResponse(500, ProviderError))
             /\ playlists' = d.playlists
             /\ UNCHANGED <<tidal_sessions, api_usage, migrations, today>>
        ELSE /\ Answer(req, NoEnv, d.calls,
                       [status |-> 200, success |-> TRUE, playlist_id |-> d.playlist_id,
                        name |-> d.playlist_name, tracks_added |-> Len(track_ids)])
             /\ playlists' = d.playlists
             /\ UNCHANGED <<tidal_sessions, api_usage, migrations, today>>

----------------------------------------------------------------------------
(* The initial state and the inputs the specifications draw *)

TrackT == TidalId(1)
TrackU == TidalId(2)

Workers == 1..MaxInFlight
Idle == [pc |-> "idle"]        \* a worker thread between two requests

\* The Tidal account before the server starts: a playlist holding T and one
\* holding T and U.
Library ==
    (1 :> [name |-> "Target", tracks |-> <<TrackT>>]) @@
    (2 :> [name |-> "Source", tracks |-> <<TrackT, TrackU>>])

Init ==
    /\ tidal_sessions = <<>>
    /\ playlists = Library
    /\ api_usage = <<>>
    /\ migrations = <<>>
    /\ today = 0
    /\ request = NoRequest
    /\ env = NoEnv
    /\ calls = <<>>
    /\ response = NoResponse
    /\ served = 0
    /\ inflight = [w \in Workers |-> Idle]

ShortList == <<1, 2>>
LongList == [i \in 1..MaxTracks |-> i]
RepeatList == <<2, 1, 2>>      \* a track listed twice
TrackLists == {<<>>, ShortList, RepeatList, LongList}

UnknownId == MaxSessions + 1   \* a session id the registry never issued
DefaultName == "Migrated Songs"

\* The answers of the n searches of one request: the first FreeLen are drawn
\* freely from outs, the remaining ones share one outcome.
Outcomes(n, outs) ==
    {[i \in 1..n |-> IF i <= FreeLen THEN p[i] ELSE f] :
        p \in [1..Min(n, FreeLen) -> outs], f \in outs}

\* The inputs of Spec: every field of a request absent, valid or invalid, short
\* and long track lists, every answer of the collaborators.
Rich ==
    [cap |-> MaxRequests,
     codes |-> {None} \cup UserIds,
     sids |-> {None, UnknownId} \cup SessionIds,
     lists |-> TrackLists,
     outs |-> SearchOutcomes,
     favs |-> BOOLEAN,
     targets |-> {None, 1, MaxPlaylists},
     favfs |-> SUBSET (1..FavFaults),
     destfs |-> {"none", "open", "add"},
     dbfs |-> {"none", "ledger", "usage", "activity"},
     idents |-> {"user", "nouser", "raise"},
     pids |-> {None, 1},
     names |-> {NoText, DefaultName}]

\* The inputs of SpecQuota: well-formed requests of identified and unidentified
\* callers on one track, enough of them to pass the daily limit.
Lean ==
    [cap |-> DailyLimit + 1,
     codes |-> UserIds,
     sids |-> SessionIds,
     lists |-> {<<1>>},
     outs |-> {"match", "zero"},
     favs |-> {FALSE},
     targets |-> {None, 1},
     favfs |-> {{}},
     destfs |-> {"none", "open", "add"},
     dbfs |-> {"none", "ledger", "usage", "activity"},
     idents |-> {"user", "nouser", "raise"},
     pids |-> {1},
     names |-> {DefaultName}]

\* On a session that is not logged in the Tidal client has one answer.
OnSession(P, session_id) ==
    IF session_id \in DOMAIN tidal_sessions /\ ~logged_in(session_id)
    THEN [P EXCEPT !.outs = {"raise"}, !.favfs = {{}}, !.destfs = {"open"}]
    ELSE P

TracksEnvs(P, valid, tracks, add_to_favorites) ==
    IF ~valid
    THEN {[ident |-> "user", outc |-> <<>>, favf |-> {}, destf |-> "none", dbf |-> "none"]}
    ELSE {[ident |-> i, outc |-> o, favf |-> ff, destf |-> df, dbf |-> db] :
            i \in P.idents,
            o \in Outcomes(Len(tracks), P.outs),
            ff \in IF add_to_favorites THEN P.favfs ELSE {{}},
            df \in IF add_to_favorites THEN {"none"} ELSE P.destfs,
            db \in P.dbfs}

PlaylistEnvs(P, valid) ==
    IF ~valid
    THEN {[ident |-> "user", sourcef |-> FALSE, source |-> <<>>, outc |-> <<>>,
           destf |-> "none", dbf |-> "none"]}
    ELSE {[ident |-> i, sourcef |-> TRUE, source |-> <<>>, outc |-> <<>>,
           destf |-> "none", dbf |-> "none"] : i \in P.idents}
         \cup
         UNION {{[ident |-> i, sourcef |-> FALSE, source |-> src, outc |-> o,
                  destf |-> df, dbf |-> db] :
                    i \in P.idents,
                    o \in Outcomes(Len(src), P.outs),
                    df \in P.destfs,
                    db \in P.dbfs} : src \in P.lists}

MergeEnvs(valid, authorized) ==
    IF ~valid \/ ~authorized
    THEN {[fetchf |-> "none", addf |-> {}, deletef |-> FALSE]}
    ELSE {[fetchf |-> f, addf |-> a, deletef |-> d] :
            f \in {"none", "source", "target", "source_tracks", "target_tracks"},
            a \in SUBSET (1..2),
            d \in BOOLEAN}

\* The call of a session handler that raises, one of faults or none; a request
\* that does not reach the session, or reaches one that is not logged in, has
\* one answer.
FaultEnvs(session_id, faults) ==
    IF session_id \in DOMAIN tidal_sessions /\ logged_in(session_id)
    THEN {[fault |-> f] : f \in {"none"} \cup faults}
    ELSE {[fault |-> "none"]}

SearchEnvs(session_id) ==
    IF session_id \in DOMAIN tidal_sessions /\ logged_in(session_id)
    THEN {[outcome |-> o] : o \in SearchOutcomes}
    ELSE {[outcome |-> "raise"]}

----------------------------------------------------------------------------
(* The requests of a specification *)

Login ==
    /\ \E session_id \in SessionIds, raises \in BOOLEAN : tidal_login(session_id, raises)
    /\ UNCHANGED inflight

Authorization ==
    /\ \E session_id \in SessionIds, outcome \in {"ok", "error"} :
          AuthorizationEnds(session_id, outcome)
    /\ UNCHANGED inflight

CheckAuth ==
    /\ \E session_id \in {None, UnknownId} \cup SessionIds : tidal_check_auth(session_id)
    /\ UNCHANGED inflight

MigrateTracks(P) ==
    /\ served < P.cap
    /\ served' = served + 1
    /\ UNCHANGED inflight
    /\ \E spotify_code \in P.codes, tidal_session_id \in P.sids, tracks \in P.lists,
          add_to_favorites \in P.favs :
          \E target_playlist_id \in
                IF add_to_favorites THEN P.targets \ {MaxPlaylists} ELSE P.targets :
             \E e \in TracksEnvs(OnSession(P, tidal_session_id),
                                 /\ spotify_code # None
                                    /\ tidal_session_id \in DOMAIN tidal_sessions
                                    /\ tracks # <<>>,
                                 tracks, add_to_favorites) :
                migrate_tracks(spotify_code, tidal_session_id, tracks, DefaultName,
                               target_playlist_id, add_to_favorites, e)

MigratePlaylist(P) ==
    /\ served < P.cap
    /\ served' = served + 1
    /\ UNCHANGED inflight
    /\ \E spotify_code \in P.codes, tidal_session_id \in P.sids,
          playlist_id \in P.pids, playlist_name \in P.names :
          \E e \in PlaylistEnvs(OnSession(P, tidal_session_id),
                                /\ spotify_code # None
                                   /\ tidal_session_id \in DOMAIN tidal_sessions
                                   /\ playlist_id # None) :
             migrate_playlist(spotify_code, tidal_session_id, playlist_id,
                              playlist_name, e)

MergePlaylists(P) ==
    /\ served < P.cap
    /\ served' = served + 1
    /\ UNCHANGED inflight
    /\ \E session_id \in P.sids,
          source_playlist_id \in {None} \cup PlaylistIds,
          target_playlist_id \in {None} \cup PlaylistIds :
          \E e \in MergeEnvs(/\ session_id \in DOMAIN tidal_sessions
                             /\ source_playlist_id # None
                             /\ target_playlist_id # None
                             /\ source_playlist_id # target_playlist_id,
                             session_id \in DOMAIN tidal_sessions /\ logged_in(session_id)) :
             tidal_merge_playlists(session_id, source_playlist_id, target_playlist_id, e)

ListPlaylists(P) ==
    /\ served < P.cap
    /\ served' = served + 1
    /\ UNCHANGED inflight
    /\ \E session_id \in P.sids :
          \E e \in FaultEnvs(session_id, {"open"}) : tidal_playlists(session_id, e)

PlaylistTracks(P) ==
    /\ served < P.cap
    /\ served' = served + 1
    /\ UNCHANGED inflight
    /\ \E session_id \in P.sids, playlist_id \in P.targets :
          \E e \in FaultEnvs(session_id, {"open", "tracks"}) :
             tidal_playlist_tracks(session_id, playlist_id, e)

DeletePlaylist(P) ==
    /\ served < P.cap
    /\ served' = served + 1
    /\ UNCHANGED inflight
    /\ \E session_id \in P.sids, playlist_id \in P.targets :
          \E e \in FaultEnvs(session_id, {"open", "delete"}) :
             tidal_delete_playlist(session_id, playlist_id, e)

Search(P) ==
    /\ served < P.cap
    /\ served' = served + 1
    /\ UNCHANGED inflight
    /\ \E session_id \in P.sids, query \in {None, 1} :
          \E e \in SearchEnvs(session_id) : tidal_search(session_id, query, e)

CreatePlaylist(P) ==
    /\ served < P.cap
    /\ served' = served + 1
    /\ UNCHANGED inflight
    /\ \E session_id \in P.sids, name \in P.names, track_ids \in {<<>>, <<TrackU>>} :
          \E e \in FaultEnvs(session_id, {"open", "add"}) :
             tidal_create_playlist(session_id, name, track_ids, e)

Next ==
    \/ Login
    \/ Authorization
    \/ CheckAuth
    \/ MigrateTracks(Rich)
    \/ MigratePlaylist(Rich)
    \/ MergePlaylists(Rich)
    \/ ListPlaylists(Rich)
    \/ PlaylistTracks(Rich)
    \/ DeletePlaylist(Rich)
    \/ Search(Rich)
    \/ CreatePlaylist(Rich)

Spec == Init /\ [][Next]_vars

\* The quota gate over a day of requests.
NextQuota ==
    \/ Login
    \/ Authorization
    \/ MigrateTracks(Lean)
    \/ MigratePlaylist(Lean)

SpecQuota == Init /\ [][NextQuota]_vars

----------------------------------------------------------------------------
(* migrate_tracks served by worker threads at the same time.  A request meets
   the database four times: the query of check_rate_limit, the commit of the
   ledger row, the query of increment_usage and the commit of increment_usage.
   Each is one step, and the steps of different requests interleave. *)

RaceUser == CHOOSE u \in UserIds : \A v \in UserIds : u <= v
RaceSession == CHOOSE k \in SessionIds : \A j \in SessionIds : k <= j
RaceTracks == <<1>>
RaceCap == DailyLimit + MaxInFlight      \* requests served in one behaviour of SpecRace

\* The body of the requests: one track of RaceUser, to favorites or to the
\* playlist that holds T.
RaceRequest(add_to_favorites) ==
    [op |-> "migrate_tracks",
     spotify_code |-> RaceUser,
     tidal_session_id |-> RaceSession,
     tracks |-> RaceTracks,
     playlist_name |-> DefaultName,
     target_playlist_id |-> IF add_to_favorites THEN None ELSE 1,
     add_to_favorites |-> add_to_favorites]

\* app.py:795-826: validation, get_user_from_code and the check.  A rejected
\* request is answered 429 at once; an admitted one goes on to the migration.
migrate_tracks_gate(w, add_to_favorites) ==
    LET req == RaceRequest(add_to_favorites)
        user == get_user_from_code(req.spotify_code, "user")
    IN  /\ inflight[w].pc = "idle"
        /\ req.tidal_session_id \in DOMAIN tidal_sessions
        /\ IF quota_rejects(user, "user")
           THEN /\ Answer(req, Consulted("user", "none"), <<>>, QuotaResponse(DailyLimit))
                /\ UNCHANGED inflight
           ELSE /\ inflight' = [inflight EXCEPT ![w] = [pc |-> "checked", req |-> req]]
                /\ UNCHANGED <<request, env, calls, response>>
        /\ UNCHANGED <<tidal_sessions, playlists, api_usage, migrations, today>>

\* app.py:828-893 and 917-934: the searches, the destination and the commit of
\* the ledger row, completed or failed.
migrate_tracks_run(w, e) ==
    LET req == inflight[w].req
        user == req.spotify_code
        a == on_session(req.tidal_session_id, e, Len(req.tracks))
        s == search_phase(req.tracks, a.outc)
        d == destination_phase(playlists, s.tidal_track_ids, req.playlist_name,
                               req.target_playlist_id, req.add_to_favorites, a)
    IN  /\ inflight[w].pc = "checked"
        /\ playlists' = d.playlists
        /\ IF d.raised
           THEN /\ migrations' = log_failed_migration(
                                     user, failed_record(user, Len(req.tracks), ProviderError),
                                     "none")
                /\ Answer(req, Consulted("user", "none"), s.calls \o d.calls,
                          ErrorResponse(500, ProviderError))
                /\ inflight' = [inflight EXCEPT ![w] = Idle]
           ELSE /\ migrations' = Append(migrations,
                                        completed_record(user, None, d.playlist_id,
                                                         d.playlist_name, d.migration_type,
                                                         Len(req.tracks), s.tidal_track_ids,
                                                         s.not_found))
                /\ inflight' = [inflight EXCEPT ![w] =
                                   [pc |-> "recorded", req |-> req,
                                    calls |-> s.calls \o d.calls,
                                    resp |-> SuccessResponse(d.playlist_id, d.playlist_name,
                                                             Len(req.tracks),
                                                             s.tidal_track_ids, s.not_found)]]
                /\ UNCHANGED <<request, env, calls, response>>
        /\ UNCHANGED <<tidal_sessions, api_usage, today>>

\* models.py:305-314: ApiUsage.query.filter_by(...).first(), no row or one.
increment_usage_read(w) ==
    LET key == UsageKey(inflight[w].req.spotify_code, "migration")
    IN  /\ inflight[w].pc = "recorded"
        /\ inflight' = [inflight EXCEPT ![w] =
                           [pc |-> "read", req |-> @.req, calls |-> @.calls, resp |-> @.resp,
                            usage |-> IF key \in DOMAIN api_usage
                                      THEN <<api_usage[key]>> ELSE <<>>]]
        /\ UNCHANGED <<tidal_sessions, playlists, api_usage, migrations, today,
                       request, env, calls, response>>

\* models.py:316-329: the row that was read is written back with count + 1, or
\* a first row is inserted; inserting a second row of the key breaks the unique
\* constraint, which the handler's except clause catches (app.py:904-906).
\* Then the response is returned.
increment_usage_commit(w) ==
    LET req == inflight[w].req
        key == UsageKey(req.spotify_code, "migration")
        usage == inflight[w].usage
        conflict == usage = <<>> /\ key \in DOMAIN api_usage
    IN  /\ inflight[w].pc = "read"
        /\ api_usage' =
              IF conflict THEN api_usage
              ELSE IF usage = <<>>
              THEN [k \in DOMAIN api_usage \cup {key} |->
                       IF k = key THEN [count |-> 1, tracks_count |-> Len(req.tracks)]
                       ELSE api_usage[k]]
              ELSE [api_usage EXCEPT ![key] =
                       [count |-> usage[1].count + 1,
                        tracks_count |-> usage[1].tracks_count + Len(req.tracks)]]
        /\ Answer(req, Consulted("user", IF conflict THEN "usage" ELSE "none"),
                  inflight[w].calls, inflight[w].resp)
        /\ inflight' = [inflight EXCEPT ![w] = Idle]
        /\ UNCHANGED <<tidal_sessions, playlists, migrations, today>>

\* The answers of the Tidal client to a racing request: to favorites the search
\* matches or not and every add goes through; the fetch of the playlist raises.
RaceEnvs(add_to_favorites) ==
    IF add_to_favorites
    THEN {[outc |-> <<o>>, favf |-> {}, destf |-> "none"] : o \in {"match", "zero"}}
    ELSE {[outc |-> <<"match">>, favf |-> {}, destf |-> "open"]}

Gate ==
    /\ served < RaceCap
    /\ served' = served + 1
    /\ \E w \in Workers, add_to_favorites \in BOOLEAN :
          migrate_tracks_gate(w, add_to_favorites)

Run ==
    /\ \E w \in Workers :
          /\ inflight[w].pc = "checked"
          /\ \E e \in RaceEnvs(inflight[w].req.add_to_favorites) : migrate_tracks_run(w, e)
    /\ UNCHANGED served

ReadUsage ==
    /\ \E w \in Workers : increment_usage_read(w)
    /\ UNCHANGED served

CommitUsage ==
    /\ \E w \in Workers : increment_usage_commit(w)
    /\ UNCHANGED served

NextRace ==
    \/ Login
    \/ Authorization
    \/ Gate
    \/ Run
    \/ ReadUsage
    \/ CommitUsage

SpecRace == Init /\ [][NextRace]_vars

----------------------------------------------------------------------------
(* models.py:284-330 on its own: check_rate_limit and increment_usage applied
   to any user and action, over the days of the daily window. *)

UsageUsers == UserIds \cup {MaxUsers + 1}
UsageActions == {"migration", "fetch_liked"}
UsageCap == DailyLimit + 3       \* calls made in one behaviour of SpecUsage

\* increment_usage(user_id, action, tracks_count) called and committed.
IncrementUsage ==
    /\ served < UsageCap
    /\ served' = served + 1
    /\ \E user \in UsageUsers, action \in UsageActions, tracks_count \in {0, Len(ShortList)} :
          /\ api_usage' = increment_usage(api_usage, user, action, tracks_count)
          /\ Answer([op |-> "increment_usage", user_id |-> user, action |-> action,
                     tracks_count |-> tracks_count],
                    NoEnv, <<>>, NoResponse)
    /\ UNCHANGED <<tidal_sessions, playlists, migrations, today, inflight>>

\* check_rate_limit(user_id, action, daily_limit) called; the response is the
\* tuple it returns.
CheckRateLimit ==
    /\ served < UsageCap
    /\ served' = served + 1
    /\ \E user \in UsageUsers, action \in UsageActions :
          LET r == check_rate_limit(user, action, DailyLimit)
          IN  Answer([op |-> "check_rate_limit", user_id |-> user, action |-> action],
                     NoEnv, <<>>, [allowed |-> r[1], remaining |-> r[2]])
    /\ UNCHANGED <<tidal_sessions, playlists, api_usage, migrations, today, inflight>>

\* Midnight: date.today() returns the next day.
DayPasses ==
    /\ today < MaxDays
    /\ today' = today + 1
    /\ UNCHANGED <<tidal_sessions, playlists, api_usage, migrations, request, env, calls,
                   response, served, inflight>>

NextUsage ==
    \/ IncrementUsage
    \/ CheckRateLimit
    \/ DayPasses

SpecUsage == Init /\ [][NextUsage]_vars

----------------------------------------------------------------------------
(* What the properties below read off a state *)

MigrationOps == {"migrate_tracks", "migrate_playlist"}

MigrationSucceeded == request.op \in MigrationOps /\ response.status = 200

CallsOf(fns) == SelectSeq(calls, LAMBDA c : c.fn \in fns)

CountCalls(fn, results) == Len(SelectSeq(calls, LAMBDA c : c.fn = fn /\ c.res \in results))

SearchResults == {c.res : c \in {calls[i] : i \in {j \in 1..Len(calls) : calls[j].fn = "search"}}}

LastRow == migrations[Len(migrations)]

\* The last request wrote the completed row that ends the ledger.
CompletedRowWritten ==
    /\ MigrationSucceeded
    /\ env.ident \in {"user", "raise"}
    /\ env.dbf # "ledger"

UsageCountIn(usage, user) ==
    IF <<user, "migration", today>> \in DOMAIN usage
    THEN usage[<<user, "migration", today>>].count
    ELSE 0

UsageCount(user) == UsageCountIn(api_usage, user)

Occurrences(seq, x) == Cardinality({i \in 1..Len(seq) : seq[i] = x})

Range(seq) == {seq[i] : i \in 1..Len(seq)}

\* The ids of the tracks the searches matched, and the ids the favorites adds
\* were called with, both in call order.
MatchedIds ==
    LET m == SelectSeq(calls, LAMBDA c : c.fn = "search" /\ c.res = "match")
    IN  [i \in 1..Len(m) |-> TidalId(m[i].arg.query)]

FavoriteAdds ==
    LET a == CallsOf({"add_track"})
    IN  [i \in 1..Len(a) |-> a[i].arg]

DestinationFns == {calls[i].fn : i \in {j \in 1..Len(calls) : calls[j].fn # "search"}}

\* A playlist creation, playlist fetch or bulk add of the last request raised.
DestinationFailed ==
    \E i \in 1..Len(calls) :
        calls[i].fn \in {"create_playlist", "playlist", "add"} /\ calls[i].res = "raise"

\* The last request is a migrate_tracks that went past validation and the gate.
TracksProcessed ==
    /\ request.op = "migrate_tracks"
    /\ env.ident # "none"
    /\ response.status # 429

\* The step served a migration request that the quota check admitted.
Admitted ==
    /\ served' = served + 1
    /\ request'.op \in MigrationOps
    /\ env'.ident = "user"
    /\ response'.status # 429

----------------------------------------------------------------------------
(* C1: every successful migrate_tracks and migrate_playlist response reports
   migrated + not_found = total_tracks, where migrated counts the searches that
   matched and not_found the searches that returned nothing or raised, and every
   completed ledger row has migrated_tracks + skipped_tracks = total_tracks. *)
C1_CountsConserved ==
    /\ MigrationSucceeded =>
          /\ response.migrated + response.not_found = response.total_tracks
          /\ response.migrated = CountCalls("search", {"match"})
          /\ response.not_found = CountCalls("search", {"zero", "raise"})
    /\ \A i \in 1..Len(migrations) :
          migrations[i].status = "completed" =>
             migrations[i].migrated_tracks + migrations[i].skipped_tracks
                = migrations[i].total_tracks
    /\ CompletedRowWritten =>
          /\ LastRow.status = "completed"
          /\ LastRow.total_tracks = response.total_tracks
          /\ LastRow.migrated_tracks = response.migrated
          /\ LastRow.skipped_tracks = response.not_found

\* A successful migration whose searches matched, found nothing and raised, with
\* its completed row in the ledger.
C1_Witness ==
    /\ CompletedRowWritten
    /\ SearchResults = SearchOutcomes
    /\ response.migrated > 0

(* C2: not_found_tracks of a successful response and of a completed ledger row
   has at most 10 entries, while not_found and skipped_tracks still count every
   unmatched track and every input track was searched. *)
C2_NotFoundCapped ==
    /\ MigrationSucceeded =>
          /\ Len(response.not_found_tracks) <= 10
          /\ Len(response.not_found_tracks) = Min(10, response.not_found)
          /\ response.not_found = CountCalls("search", {"zero", "raise"})
          /\ response.total_tracks = CountCalls("search", SearchOutcomes)
    /\ \A i \in 1..Len(migrations) :
          migrations[i].status = "completed" =>
             /\ Len(migrations[i].not_found_tracks) <= 10
             /\ Len(migrations[i].not_found_tracks) = Min(10, migrations[i].skipped_tracks)

\* A successful migration with more than 10 unmatched tracks, recorded.
C2_Witness ==
    /\ CompletedRowWritten
    /\ response.not_found > 10
    /\ Len(response.not_found_tracks) = 10
    /\ LastRow.skipped_tracks > 10
    /\ Len(LastRow.not_found_tracks) = 10

(* C3: a migration request of an identified user whose attempt counter of the
   day has reached the daily limit is answered 429 with the limit, issues no
   call on the Tidal session and changes neither the ledger, the usage table
   nor the playlists. *)
C3_QuotaRejects ==
    [][(/\ served' = served + 1
        /\ request'.op \in MigrationOps
        /\ env'.ident = "user"
        /\ UsageCount(request'.spotify_code) >= DailyLimit)
       => (/\ response'.status = 429
           /\ response'.limit = DailyLimit
           /\ calls' = <<>>
           /\ migrations' = migrations
           /\ api_usage' = api_usage
           /\ playlists' = playlists)]_vars

\* A rejected request: the counter stands at the limit and the answer is 429.
C3_Witness ==
    /\ request.op \in MigrationOps
    /\ response.status = 429
    /\ UsageCount(request.spotify_code) = DailyLimit
    /\ calls = <<>>

(* C4: merging the playlist holding T and U into a playlist that holds T
   leaves the target with T and U exactly once each and deletes the source,
   whenever the merge answers success. *)
C4_MergeKeepsBoth ==
    [][(/\ served' = served + 1
        /\ request'.op = "tidal_merge_playlists"
        /\ response'.status = 200
        /\ TrackT \in Range(playlists[request'.target_playlist_id].tracks)
        /\ Range(playlists[request'.source_playlist_id].tracks) = {TrackT, TrackU})
       => (/\ request'.source_playlist_id \notin DOMAIN playlists'
           /\ Occurrences(playlists'[request'.target_playlist_id].tracks, TrackT) = 1
           /\ Occurrences(playlists'[request'.target_playlist_id].tracks, TrackU) = 1)]_vars

(* C5: tidal_check_auth of an empty id or of an id that is not in the registry
   answers 200 with authenticated false and the error "Invalid session", and
   leaves the registry as it was. *)
C5_UnknownSessionPoll ==
    [][\A session_id \in {None, UnknownId} \cup SessionIds :
          (/\ tidal_check_auth(session_id)
           /\ (session_id = None \/ session_id \notin DOMAIN tidal_sessions))
          => (/\ response' = [status |-> 200, authenticated |-> FALSE,
                              error |-> "Invalid session"]
              /\ tidal_sessions' = tidal_sessions)]_vars

\* An unknown id was polled while the registry holds a session.
C5_Witness ==
    /\ request.op = "tidal_check_auth"
    /\ request.session_id = UnknownId
    /\ DOMAIN tidal_sessions # {}
    /\ response.status = 200
    /\ response.error = "Invalid session"

(* C6: a migrate_tracks request to favorites that passed the gate answers
   success, calls the favorites add once for each matched track, in order,
   whatever adds failed, and reports as migrated the number of matched tracks. *)
C6_FavoritesBestEffort ==
    (TracksProcessed /\ request.add_to_favorites) =>
        /\ response.status = 200
        /\ response.migrated = CountCalls("search", {"match"})
        /\ FavoriteAdds = MatchedIds

\* The first favorites add failed and the second was still made.
C6_Witness ==
    /\ TracksProcessed
    /\ request.add_to_favorites
    /\ Len(CallsOf({"add_track"})) >= 2
    /\ CallsOf({"add_track"})[1].res = "raise"
    /\ response.status = 200
    /\ response.migrated = Len(CallsOf({"add_track"}))

(* C7: a migrate_tracks request that passed the gate applies one destination:
   with add_to_favorites only favorites adds are called, whatever
   target_playlist_id is; without it and with target_playlist_id the playlist
   is fetched once and none is created; a playlist is created only when
   neither is given. *)
C7_OneDestination ==
    TracksProcessed =>
        /\ request.add_to_favorites => DestinationFns \subseteq {"add_track"}
        /\ (~request.add_to_favorites /\ request.target_playlist_id # None) =>
              /\ DestinationFns \subseteq {"playlist", "add"}
              /\ Len(CallsOf({"playlist"})) = 1
        /\ (~request.add_to_favorites /\ request.target_playlist_id = None) =>
              /\ DestinationFns \subseteq {"create_playlist", "add"}
              /\ Len(CallsOf({"create_playlist"})) = 1
        /\ Len(CallsOf({"add"})) <= 1

\* Favorites and a target playlist were both given, and favorites was applied.
C7_Witness ==
    /\ TracksProcessed
    /\ request.add_to_favorites
    /\ request.target_playlist_id # None
    /\ response.status = 200
    /\ "add_track" \in DestinationFns

(* C8: a migration whose playlist creation, playlist fetch or bulk add raised
   answers 500 with an error and no success field. *)
C8_DestinationFailureFails ==
    (request.op \in MigrationOps /\ DestinationFailed) =>
        /\ response.status = 500
        /\ "error" \in DOMAIN response
        /\ "success" \notin DOMAIN response

\* The bulk add raised after the search phase had matched tracks.
C8_Witness ==
    /\ request.op \in MigrationOps
    /\ CountCalls("search", {"match"}) > 0
    /\ CountCalls("add", {"raise"}) = 1
    /\ response.status = 500

(* C9: a migration during which the ledger insert, the usage increment or the
   activity log raised answers what the calls on the Tidal session determine:
   500 with the provider's error if the destination failed, else success with
   the counts of the search phase. *)
C9_PersistenceFailureSwallowed ==
    (request.op \in MigrationOps /\ env.dbf # "none") =>
        IF DestinationFailed
        THEN response = ErrorResponse(500, ProviderError)
        ELSE /\ response.status = 200
             /\ response.success
             /\ response.total_tracks = CountCalls("search", SearchOutcomes)
             /\ response.migrated = CountCalls("search", {"match"})
             /\ response.not_found = CountCalls("search", {"zero", "raise"})

\* The ledger insert raised and the request still succeeded, unrecorded.
C9_Witness ==
    /\ MigrationSucceeded
    /\ env.dbf = "ledger"
    /\ response.migrated > 0
    /\ migrations = <<>>

(* C10, as claimed: every migration request of an identified user that the
   quota check admitted raises the user's attempt counter of the day by one. *)
C10_ConsumedOnAttempt ==
    [][Admitted =>
          UsageCountIn(api_usage', request'.spotify_code)
             = UsageCount(request'.spotify_code) + 1]_vars

(* C10, amended: an admitted migration request raises the attempt counter by
   one when it answers success and the ledger insert and the usage commit went
   through, and leaves the counter as it was otherwise, also when the migration
   failed at playlist creation, fetch or bulk add. *)
C10_ConsumedOnRecordedSuccess ==
    [][Admitted =>
          UsageCountIn(api_usage', request'.spotify_code)
             = UsageCount(request'.spotify_code)
               + (IF response'.status = 200 /\ env'.dbf \notin {"ledger", "usage"}
                  THEN 1 ELSE 0)]_vars

\* An admitted request failed at the destination after an earlier one was
\* counted: the counter still stands at one.
C10_Witness ==
    /\ request.op \in MigrationOps
    /\ env.ident = "user"
    /\ response.status = 500
    /\ DestinationFailed
    /\ UsageCount(request.spotify_code) = 1

----------------------------------------------------------------------------
\* The handlers that borrow a Tidal session, and the session id of a request.
SessionOps ==
    {"tidal_playlists", "tidal_playlist_tracks", "tidal_delete_playlist",
     "tidal_merge_playlists", "tidal_search", "tidal_create_playlist",
     "migrate_tracks", "migrate_playlist"}

SessionOf(req) ==
    IF req.op \in MigrationOps THEN req.tidal_session_id ELSE req.session_id

(* C11: a request to a handler that borrows a Tidal session, made with a
   session id that is not in the registry, is answered 400, issues no call on
   any session and leaves the registry and the playlists as they were. *)
C11_UnknownSessionRejected ==
    [][(/\ served' = served + 1
        /\ request'.op \in SessionOps
        /\ SessionOf(request') \notin DOMAIN tidal_sessions)
       => (/\ response'.status = 400
           /\ "error" \in DOMAIN response'
           /\ calls' = <<>>
           /\ tidal_sessions' = tidal_sessions
           /\ playlists' = playlists)]_vars

\* A delete with an id the registry never issued was rejected while the
\* registry holds a logged-in session.
C11_Witness ==
    /\ request.op = "tidal_delete_playlist"
    /\ request.session_id = UnknownId
    /\ request.playlist_id # None
    /\ \E k \in DOMAIN tidal_sessions : tidal_sessions[k] = "ok"
    /\ response.status = 400
    /\ calls = <<>>

----------------------------------------------------------------------------
\* The last request is a migration that reached its search phase, and the
\* tracks it had to search.
Processed ==
    \/ TracksProcessed
    \/ request.op = "migrate_playlist" /\ "source" \in DOMAIN env

InputTracks == IF request.op = "migrate_tracks" THEN request.tracks ELSE env.source

SearchCalls == CallsOf({"search"})

(* C12: a migration whose searches matched no track and whose playlist
   creation or fetch did not fail answers success with migrated 0 and
   not_found = total_tracks, issues no bulk add and no favorites add, and a
   playlist it created is empty. *)
C12_ZeroMatchesSucceeds ==
    (/\ Processed
     /\ CountCalls("search", {"match"}) = 0
     /\ ~DestinationFailed)
    => /\ response.status = 200
       /\ response.success
       /\ response.migrated = 0
       /\ response.total_tracks = Len(InputTracks)
       /\ response.not_found = response.total_tracks
       /\ CallsOf({"add", "add_track"}) = <<>>
       /\ CountCalls("create_playlist", {"ok"}) = 1 =>
             /\ response.playlist_id \in DOMAIN playlists
             /\ playlists[response.playlist_id].tracks = <<>>

\* Every search of a request for a new playlist came back empty or raised on a
\* logged-in session, and the playlist was created empty.
C12_Witness ==
    /\ Processed
    /\ Len(SearchCalls) >= 2
    /\ CountCalls("search", {"zero"}) >= 1
    /\ CountCalls("search", {"match"}) = 0
    /\ CountCalls("create_playlist", {"ok"}) = 1
    /\ response.status = 200
    /\ response.migrated = 0
    /\ playlists[response.playlist_id].tracks = <<>>

(* C13: a poll of a registered session answers by the state of its login
   future alone: not done, authenticated false without an error; done well,
   authenticated true with the user; done with a failure, authenticated false
   with the error.  The three answers differ. *)
C13_PollThreeWay ==
    [][\A session_id \in SessionIds :
          (tidal_check_auth(session_id) /\ session_id \in DOMAIN tidal_sessions)
          => /\ tidal_sessions[session_id] = "pending" =>
                   response' = [status |-> 200, authenticated |-> FALSE]
             /\ tidal_sessions[session_id] = "ok" =>
                   /\ response'.authenticated
                   /\ DOMAIN response' = {"status", "authenticated", "user"}
             /\ tidal_sessions[session_id] = "error" =>
                   /\ ~response'.authenticated
                   /\ DOMAIN response' = {"status", "authenticated", "error"}
                   /\ response'.error # "Invalid session"]_vars

\* A poll reported the failure of a session's authorization.
C13_Witness ==
    /\ request.op = "tidal_check_auth"
    /\ request.session_id \in DOMAIN tidal_sessions
    /\ tidal_sessions[request.session_id] = "error"
    /\ response = [status |-> 200, authenticated |-> FALSE, error |-> AuthError]

(* C14: a migration issues calls on a Tidal session only if the session's
   device authorization has completed successfully. *)
C14_UsedOnlyWhenAuthorized ==
    [][(/\ served' = served + 1
        /\ request'.op \in MigrationOps
        /\ calls' # <<>>)
       => tidal_sessions[request'.tidal_session_id] = "ok"]_vars

(* C15: a migration that reaches its search phase searches every input track
   once, in input order, with a limit of one result, whatever the outcome of
   the earlier searches. *)
C15_EveryTrackSearchedOnce ==
    Processed =>
        /\ Len(SearchCalls) = Len(InputTracks)
        /\ \A i \in 1..Len(SearchCalls) :
              SearchCalls[i].arg = [query |-> InputTracks[i], limit |-> 1]

\* The first search raised, the second found nothing, and the later ones were
\* still made.
C15_Witness ==
    /\ Processed
    /\ Len(SearchCalls) >= 3
    /\ SearchCalls[1].res = "raise"
    /\ SearchCalls[2].res = "zero"
    /\ SearchCalls[3].res = "match"
    /\ Len(SearchCalls) = Len(InputTracks)

(* C16: with the database working, a migration request of an identified user
   that failed at playlist creation, fetch or bulk add leaves as last ledger
   row one with status failed and the error message set. *)
C16_FailureRecorded ==
    (/\ request.op \in MigrationOps
     /\ env.ident \in {"user", "raise"}
     /\ env.dbf = "none"
     /\ DestinationFailed)
    => /\ migrations # <<>>
       /\ LastRow.status = "failed"
       /\ LastRow.error_message # NoText

----------------------------------------------------------------------------
\* The last request was a poll of session_id and no login or authorization
\* event changed what it saw: the session is still unregistered, pending,
\* logged in or failed, as the answer reported it.
PolledAndNoEventSince(session_id) ==
    /\ request = [op |-> "tidal_check_auth", session_id |-> session_id]
    /\ IF session_id \notin DOMAIN tidal_sessions
       THEN "error" \in DOMAIN response /\ response.error = "Invalid session"
       ELSE CASE tidal_sessions[session_id] = "pending" ->
                    ~response.authenticated /\ "error" \notin DOMAIN response
              [] tidal_sessions[session_id] = "ok" -> response.authenticated
              [] OTHER ->
                    /\ ~response.authenticated
                    /\ "error" \in DOMAIN response
                    /\ response.error # "Invalid session"

(* C18: a poll of any session id leaves the registry and the state of every
   session as they were, and a poll of the id polled last, with no login or
   authorization event in between, returns the same answer. *)
C18_PollIdempotent ==
    [][\A session_id \in {None, UnknownId} \cup SessionIds :
          tidal_check_auth(session_id)
          => /\ tidal_sessions' = tidal_sessions
             /\ PolledAndNoEventSince(session_id) => response' = response]_vars

\* A poll reported a completed authorization and the session is still
\* registered and logged in.
C18_Witness ==
    /\ request.op = "tidal_check_auth"
    /\ request.session_id \in DOMAIN tidal_sessions
    /\ tidal_sessions[request.session_id] = "ok"
    /\ response.authenticated

\* The source tracks the target does not hold, in source order.
Missing(source_tracks, target_tracks) ==
    SelectSeq(source_tracks, LAMBDA t : t \notin Range(target_tracks))

ReadCalls == CallsOf({"playlist", "tracks"})

(* C19: a merge deletes the source at most once, as its last call, after one
   add was attempted for every source track the target lacked, in source order;
   when a read of a playlist or of its tracks raised, no add and no delete is
   issued and the answer is 500; a merge of a playlist with itself is answered
   400 without a call. *)
C19_DeleteLastAfterAdds ==
    [][(served' = served + 1 /\ request'.op = "tidal_merge_playlists")
       => LET src == request'.source_playlist_id
              tgt == request'.target_playlist_id
              adds == SelectSeq(calls', LAMBDA c : c.fn = "add")
              deletes == SelectSeq(calls', LAMBDA c : c.fn = "delete")
              reads == SelectSeq(calls', LAMBDA c : c.fn \in {"playlist", "tracks"})
          IN  /\ Len(deletes) <= 1
              /\ deletes # <<>> =>
                    /\ calls'[Len(calls')].fn = "delete"
                    /\ calls'[Len(calls')].arg = src
                    /\ LET missing == Missing(playlists[src].tracks, playlists[tgt].tracks)
                       IN  /\ Len(adds) = Len(missing)
                           /\ \A i \in 1..Len(adds) : adds[i].arg = <<missing[i]>>
              /\ (\E i \in 1..Len(reads) : reads[i].res = "raise") =>
                    /\ adds = <<>>
                    /\ deletes = <<>>
                    /\ response'.status = 500
              /\ (src # None /\ src = tgt) =>
                    /\ response'.status = 400
                    /\ calls' = <<>>]_vars

\* A merge whose add raised went on to delete the source as its last call.
C19_Witness ==
    /\ request.op = "tidal_merge_playlists"
    /\ CountCalls("add", {"raise"}) = 1
    /\ calls[Len(calls)] = [fn |-> "delete", arg |-> request.source_playlist_id, res |-> "ok"]
    /\ response.status = 200

\* The input tracks whose search found nothing or raised, in input order.
Unmatched ==
    LET idx == {i \in 1..Len(InputTracks) : SearchCalls[i].res # "match"}
    IN  [k \in 1..Cardinality(idx) |->
            InputTracks[CHOOSE i \in idx : Cardinality({j \in idx : j <= i}) = k]]

(* C20: the not-found list of a successful migration is the subsequence of the
   input tracks whose search raised or found nothing, in input order and once
   per occurrence: not_found counts it, and not_found_tracks of the response
   and of the completed ledger row is its prefix of length min(10, not_found). *)
C20_NotFoundInInputOrder ==
    MigrationSucceeded =>
        /\ Len(SearchCalls) = Len(InputTracks)
        /\ response.not_found = Len(Unmatched)
        /\ response.not_found_tracks = SubSeq(Unmatched, 1, Min(10, Len(Unmatched)))
        /\ CompletedRowWritten =>
              /\ LastRow.skipped_tracks = Len(Unmatched)
              /\ LastRow.not_found_tracks = SubSeq(Unmatched, 1, Min(10, Len(Unmatched)))

\* The track listed twice was unmatched both times and the one between them
\* was matched.
C20_Witness ==
    /\ MigrationSucceeded
    /\ InputTracks = RepeatList
    /\ response.migrated = 1
    /\ response.not_found_tracks = <<2, 2>>

----------------------------------------------------------------------------
\* The requests of RaceUser that passed the check and have not yet committed
\* their usage.
AdmittedInFlight == {w \in Workers : inflight[w].pc # "idle"}

(* C17: the check and the commit of the quota gate are separate steps: requests
   of one user that pass the check before the others commit are all admitted,
   so the day's attempt counter can pass DailyLimit; with at most MaxInFlight
   requests between check and commit it never passes
   DailyLimit + MaxInFlight - 1. *)
C17_OverrunBounded ==
    /\ UsageCount(RaceUser) <= DailyLimit + MaxInFlight - 1
    /\ UsageCount(RaceUser) + Cardinality(AdmittedInFlight) <= DailyLimit + MaxInFlight - 1

\* Every worker was admitted below the limit and committed: the counter stands
\* above the limit, at the bound.
C17_Witness ==
    /\ UsageCount(RaceUser) > DailyLimit
    /\ UsageCount(RaceUser) = DailyLimit + MaxInFlight - 1
    /\ AdmittedInFlight = {}

----------------------------------------------------------------------------
\* The count of a key of the usage table, 0 when the key has no row.
CountAt(usage, key) == IF key \in DOMAIN usage THEN usage[key].count ELSE 0

(* C21: increment_usage raises the attempt counter of its (user, action, day)
   key by one and its item counter by tracks_count, creating the row at
   1 / tracks_count when the key has none, and leaves every other row as it
   was; when the day advances no row is deleted and the check of any user and
   action answers allowed with remaining = DailyLimit. *)
C21_CountersPerKey ==
    [][/\ (served' = served + 1 /\ request'.op = "increment_usage") =>
             LET key == <<request'.user_id, request'.action, today>>
             IN  /\ DOMAIN api_usage' = DOMAIN api_usage \cup {key}
                 /\ \A k \in DOMAIN api_usage \ {key} : api_usage'[k] = api_usage[k]
                 /\ api_usage'[key] =
                       IF key \in DOMAIN api_usage
                       THEN [count |-> api_usage[key].count + 1,
                             tracks_count |-> api_usage[key].tracks_count
                                              + request'.tracks_count]
                       ELSE [count |-> 1, tracks_count |-> request'.tracks_count]
       /\ today' # today =>
             /\ api_usage' = api_usage
             /\ \A user \in UsageUsers, action \in UsageActions :
                   check_rate_limit(user, action, DailyLimit)' = <<TRUE, DailyLimit>>
       /\ (served' = served + 1 /\ request'.op = "check_rate_limit"
           /\ <<request'.user_id, request'.action, today>> \notin DOMAIN api_usage) =>
             /\ response'.allowed
             /\ response'.remaining = DailyLimit]_vars

\* A user who used up yesterday's window is allowed again today, the row of
\* yesterday is still there, and the table holds rows of other keys.
C21_Witness ==
    /\ today > 0
    /\ request.op = "check_rate_limit"
    /\ CountAt(api_usage, <<request.user_id, request.action, today - 1>>) >= DailyLimit
    /\ <<request.user_id, request.action, today>> \notin DOMAIN api_usage
    /\ response = [allowed |-> TRUE, remaining |-> DailyLimit]
    /\ Cardinality(DOMAIN api_usage) >= 2

(* C22: check_rate_limit answers allowed = (today's count < DailyLimit) and
   remaining = max(0, DailyLimit - count), (TRUE, DailyLimit) when the key has
   no row today, and changes no row of the usage table. *)
C22_CheckReadsOnly ==
    [][(served' = served + 1 /\ request'.op = "check_rate_limit") =>
          LET key == <<request'.user_id, request'.action, today>>
              count == CountAt(api_usage, key)
          IN  /\ response'.allowed = (count < DailyLimit)
              /\ response'.remaining = (IF DailyLimit - count > 0
                                        THEN DailyLimit - count ELSE 0)
              /\ key \notin DOMAIN api_usage =>
                    response' = [allowed |-> TRUE, remaining |-> DailyLimit]
              /\ api_usage' = api_usage
              /\ migrations' = migrations]_vars

\* A check of a key whose count has passed the limit: not allowed, nothing
\* remaining.
C22_Witness ==
    /\ request.op = "check_rate_limit"
    /\ CountAt(api_usage, <<request.user_id, request.action, today>>) > DailyLimit
    /\ response = [allowed |-> FALSE, remaining |-> 0]

----------------------------------------------------------------------------
\* The step served a migration request that reached the quota gate with the
\* given outcome of the identification and the check.
GateStep(idents) ==
    /\ served' = served + 1
    /\ request'.op \in MigrationOps
    /\ env'.ident \in idents

(* C23: with requests served one at a time, the attempt counter of a user for
   'migration' never exceeds DailyLimit, and once it stands at DailyLimit every
   further migration request of that user that day is answered 429. *)
C23_CounterWithinLimit ==
    [][/\ \A user \in UserIds : UsageCountIn(api_usage', user) <= DailyLimit
       /\ (GateStep({"user", "raise"}) /\ UsageCount(request'.spotify_code) = DailyLimit)
             => response'.status = 429]_vars

(* C24: when no user is found for the code, or the identification or the quota
   check raises, migrate_tracks and migrate_playlist are not rejected by the
   quota, run their phases, and write neither a usage row nor a ledger row. *)
C24_FailOpenUnrecorded ==
    [][GateStep({"nouser", "raise"}) =>
          /\ response'.status # 429
          /\ api_usage' = api_usage
          /\ migrations' = migrations]_vars

(* C25: whenever tidal_merge_playlists deletes the source playlist, every
   track the source held is in the target at that moment, also when adds
   failed, and tracks_added + tracks_skipped is the number of source tracks. *)
C25_MergeLosesNoTrack ==
    [][(/\ served' = served + 1
        /\ request'.op = "tidal_merge_playlists"
        /\ request'.source_playlist_id \in DOMAIN playlists
        /\ request'.source_playlist_id \notin DOMAIN playlists')
       => (/\ Range(playlists[request'.source_playlist_id].tracks)
                 \subseteq Range(playlists'[request'.target_playlist_id].tracks)
           /\ response'.tracks_added + response'.tracks_skipped
                 = Len(playlists[request'.source_playlist_id].tracks))]_vars

----------------------------------------------------------------------------
\* The completed ledger rows of a user for today, and the tracks they total.
CompletedRows(user) ==
    SelectSeq(migrations,
              LAMBDA r : r.user_id = user /\ r.status = "completed" /\ r.day = today)

RECURSIVE SumTracks(_)
SumTracks(rows) ==
    IF rows = <<>> THEN 0 ELSE rows[1].total_tracks + SumTracks(Tail(rows))

TracksCount(user) ==
    IF <<user, "migration", today>> \in DOMAIN api_usage
    THEN api_usage[<<user, "migration", today>>].tracks_count
    ELSE 0

(* C26: when migrations of one user finish at the same time, no commit of
   increment_usage is lost: once no request is between its ledger commit and
   its usage commit, the attempt counter equals the number of migrations that
   completed that day and the item counter the sum of their track counts. *)
C26_NoCommitLost ==
    (\A w \in Workers : inflight[w].pc \in {"idle", "checked"})
       => (/\ UsageCount(RaceUser) = Len(CompletedRows(RaceUser))
           /\ TracksCount(RaceUser) = SumTracks(CompletedRows(RaceUser)))

(* C27: the usage counter is raised only after the completed ledger row of the
   same migration is committed: the attempt counter of a user for the day is
   never above the number of the user's completed ledger rows of the day, and a
   successful migration whose ledger insert fails leaves the counter as it was. *)
C27_CountedAfterLedger ==
    [][/\ \A user \in UserIds :
             UsageCountIn(api_usage', user) <= Len(CompletedRows(user)')
       /\ (GateStep({"user", "raise"}) /\ response'.status = 200 /\ env'.dbf = "ledger")
             => (/\ calls' # <<>>
                 /\ migrations' = migrations
                 /\ api_usage' = api_usage)]_vars

\* A migration succeeded at the provider while its ledger insert failed: the
\* counter still stands at the one completed row of an earlier migration.
C27_Witness ==
    /\ MigrationSucceeded
    /\ env.ident = "user"
    /\ env.dbf = "ledger"
    /\ calls # <<>>
    /\ UsageCount(request.spotify_code) = 1
    /\ Len(CompletedRows(request.spotify_code)) = 1

====
